---- MODULE Spec2Model ----
(***************************************************************************)
(* Model of the text search engine, class Engine of                        *)
(* src/src/vs/workbench/services/search/node/textSearch.ts.                *)
(*                                                                         *)
(* The engine is single threaded: every handler (a walker file event, the  *)
(* walker's terminal callback, the continuation of one worker.search       *)
(* promise, cancel()) runs to completion, so each one is one action.       *)
(* The file walker and the search workers are the environment: they        *)
(* choose the file sizes, the moment of the terminal callback, its error   *)
(* and limit flag, the order in which the batch promises settle, whether   *)
(* a promise resolves or rejects, and what a resolved promise carries.     *)
(***************************************************************************)
EXTENDS Integers, Sequences, FiniteSets

(* ---- bounds of the model ---- *)
MaxFiles == 3
MaxMatches == 2
NumWorkers == 2
(* the long walk: enough files for two progress events *)
LongFiles == 100

(* ---- program constants ---- *)
PROGRESS_FLUSH_CHUNK_SIZE == 50
batchFlushBytes == 5000000
maxResults == 100000000

(* result.size as the walker reports it; 0 stands for a missing or zero size *)
FileSizes == {0, 2000000, 5000000}

NoError == "null"
WalkerErrors == {NoError, "Error"}

(* an entry of a worker's response: null, or a file match with its number  *)
(* of line matches                                                         *)
NullMatch == [isNull |-> TRUE, lineMatches |-> 0]
FileMatch(n) == [isNull |-> FALSE, lineMatches |-> n]
MatchEntries == {NullMatch} \cup {FileMatch(n) : n \in 0..2}

RECURSIVE SeqsUpTo(_, _)
SeqsUpTo(S, n) ==
    IF n = 0 THEN {<<>>}
    ELSE LET shorter == SeqsUpTo(S, n - 1)
         IN shorter \cup {Append(s, e) : s \in {t \in shorter : Len(t) = n - 1}, e \in S}

WorkerResponses == SeqsUpTo(MatchEntries, MaxMatches)

NoProgress == [total |-> -1, worked |-> -1]
(* what walker.getStats() returns: opaque to the engine *)
WalkerStats == "stats"
NoDone == [error |-> "none", limitHit |-> FALSE, stats |-> "none"]

VARIABLES
    tree,               \* the walk: files the walker can still find, how many of them with a
                        \* known size, how many entries a worker's response holds at most,
                        \* and whether the walker has a limit it can report as hit
    started,            \* search() has been called
    isCanceled, isDone, totalBytes, processedBytes, progressed,
    walkerIsDone, limitReached, numResults, walkerError,
    nextWorker,
    workerPromises,     \* one record per run(): the batch, its worker, the promise's state
    nextBatch, nextBatchBytes,
    walkerCancelCalls,  \* calls of walker.cancel()
    filesSeen,          \* file events the walker has delivered
    walkerLimitHit,     \* the isLimitHit the walker passed to its terminal callback
    doneCalls, doneArgs,            \* calls of done(), and the arguments of the last one
    onResultCalls, lastResults,     \* calls of onResult(), and the matches passed by the last handler
    hitsReturned,       \* entries with at least one line match in the workers' responses so far
    lastResponse,       \* the matches the last resolved worker.search answered with
    onProgressCalls, lastProgress,  \* calls of onProgress(), and the argument of the last one
    lastCalls           \* what the last completion handler called, in order

engineVars == <<isCanceled, isDone, totalBytes, processedBytes, progressed,
                walkerIsDone, limitReached, numResults, walkerError, nextWorker>>
walkVars == <<nextBatch, nextBatchBytes>>
callbackVars == <<doneCalls, doneArgs, onResultCalls, lastResults, onProgressCalls, lastProgress,
                  lastCalls>>
workerVars == <<hitsReturned, lastResponse>>
vars == <<tree, walkerLimitHit, started, engineVars, workerPromises, walkVars, walkerCancelCalls, filesSeen,
          workerVars, callbackVars>>

(* the engine as its constructor leaves it *)
Constructed ==
    /\ started = FALSE
    /\ isCanceled = FALSE
    /\ isDone = FALSE
    /\ totalBytes = 0
    /\ processedBytes = 0
    /\ progressed = 0
    /\ walkerIsDone = FALSE
    /\ limitReached = FALSE
    /\ numResults = 0
    /\ walkerError = NoError
    /\ nextWorker = 0
    /\ workerPromises = <<>>
    /\ nextBatch = <<>>
    /\ nextBatchBytes = 0
    /\ walkerCancelCalls = 0
    /\ filesSeen = 0
    /\ walkerLimitHit = FALSE
    /\ doneCalls = 0
    /\ doneArgs = NoDone
    /\ onResultCalls = 0
    /\ hitsReturned = 0
    /\ lastResponse = <<>>
    /\ lastResults = <<>>
    /\ onProgressCalls = 0
    /\ lastProgress = NoProgress
    /\ lastCalls = <<>>

(* a small tree of files of any size, walked without a limit *)
Init ==
    /\ Constructed
    /\ tree = [files |-> MaxFiles, sized |-> MaxFiles, entries |-> MaxMatches,
               limit |-> FALSE]

(* a long walk over files whose size is unknown, which may end at the      *)
(* walker's limit                                                          *)
InitLong ==
    /\ Constructed
    /\ tree = [files |-> LongFiles, sized |-> 0, entries |-> 1, limit |-> TRUE]

(* ---- helpers of search() ---- *)

(* let bytes = result.size || 1 *)
AccountedBytesRaw(size) == size

AccountedBytes(size) == IF size = 0 THEN 1 ELSE size

(* progress(): ++progressed, and every PROGRESS_FLUSH_CHUNK_SIZE-th call   *)
(* emits onProgress with the byte counters as they are at the call         *)
progressRemaining(total, worked) ==
    /\ progressed' = progressed + 1
    /\ IF (progressed + 1) % PROGRESS_FLUSH_CHUNK_SIZE = 0
       THEN /\ onProgressCalls' = onProgressCalls + 1
            /\ lastProgress' = [total |-> total, worked |-> total - worked]
       ELSE UNCHANGED <<onProgressCalls, lastProgress>>

progressSwapped(total, worked) ==
    /\ progressed' = progressed + 1
    /\ IF (progressed + 1) % PROGRESS_FLUSH_CHUNK_SIZE = 0
       THEN /\ onProgressCalls' = onProgressCalls + 1
            /\ lastProgress' = [total |-> worked, worked |-> total]
       ELSE UNCHANGED <<onProgressCalls, lastProgress>>

progressOffByOne(total, worked) ==
    /\ progressed' = progressed + 1
    /\ IF progressed % PROGRESS_FLUSH_CHUNK_SIZE = 0
       THEN /\ onProgressCalls' = onProgressCalls + 1
            /\ lastProgress' = [total |-> total, worked |-> worked]
       ELSE UNCHANGED <<onProgressCalls, lastProgress>>

progress(total, worked) ==
    /\ progressed' = progressed + 1
    /\ IF (progressed + 1) % PROGRESS_FLUSH_CHUNK_SIZE = 0
       THEN /\ onProgressCalls' = onProgressCalls + 1
            /\ lastProgress' = [total |-> total, worked |-> worked]
       ELSE UNCHANGED <<onProgressCalls, lastProgress>>

(* the test of unwind() that guards done() *)
DoneConditionNoGuard(done, processed, total, walkerDone) ==
    processed >= total /\ walkerDone

DoneConditionAtLeast(done, processed, total, walkerDone) ==
    ~done /\ processed >= total /\ walkerDone

DoneConditionNoWalker(done, processed, total, walkerDone) ==
    ~done /\ processed = total

DoneCondition(done, processed, total, walkerDone) ==
    ~done /\ processed = total /\ walkerDone

(* unwind(processed) *)
unwindAlwaysProgress(processed) ==
    LET worked == processedBytes + processed IN
    /\ processedBytes' = worked
    /\ IF processed # 0 /\ ~isDone
       THEN progress(totalBytes, worked)
       ELSE UNCHANGED <<progressed, onProgressCalls, lastProgress>>
    /\ IF DoneCondition(isDone, worked, totalBytes, walkerIsDone)
       THEN /\ isDone' = TRUE
            /\ doneCalls' = doneCalls + 1
            /\ doneArgs' = [error |-> walkerError, limitHit |-> limitReached,
                         stats |-> WalkerStats]
       ELSE UNCHANGED <<isDone, doneCalls, doneArgs>>

unwindCanceledError(processed) ==
    LET worked == processedBytes + processed IN
    /\ processedBytes' = worked
    /\ IF processed # 0 /\ ~isDone /\ ~isCanceled /\ ~limitReached
       THEN progress(totalBytes, worked)
       ELSE UNCHANGED <<progressed, onProgressCalls, lastProgress>>
    /\ IF DoneCondition(isDone, worked, totalBytes, walkerIsDone)
       THEN /\ isDone' = TRUE
            /\ doneCalls' = doneCalls + 1
            /\ doneArgs' = [error |-> IF isCanceled THEN "canceled" ELSE walkerError,
                            limitHit |-> limitReached, stats |-> WalkerStats]
       ELSE UNCHANGED <<isDone, doneCalls, doneArgs>>

unwindUnlessCanceled(processed) ==
    LET worked == IF isCanceled THEN processedBytes ELSE processedBytes + processed IN
    /\ processedBytes' = worked
    /\ IF processed # 0 /\ ~isDone /\ ~isCanceled /\ ~limitReached
       THEN progress(totalBytes, worked)
       ELSE UNCHANGED <<progressed, onProgressCalls, lastProgress>>
    /\ IF DoneCondition(isDone, worked, totalBytes, walkerIsDone)
       THEN /\ isDone' = TRUE
            /\ doneCalls' = doneCalls + 1
            /\ doneArgs' = [error |-> walkerError, limitHit |-> limitReached,
                         stats |-> WalkerStats]
       ELSE UNCHANGED <<isDone, doneCalls, doneArgs>>

unwind(processed) ==
    LET worked == processedBytes + processed IN
    /\ processedBytes' = worked
    /\ IF processed # 0 /\ ~isDone /\ ~isCanceled /\ ~limitReached
       THEN progress(totalBytes, worked)
       ELSE UNCHANGED <<progressed, onProgressCalls, lastProgress>>
    /\ IF DoneCondition(isDone, worked, totalBytes, walkerIsDone)
       THEN /\ isDone' = TRUE
            /\ doneCalls' = doneCalls + 1
            /\ doneArgs' = [error |-> walkerError, limitHit |-> limitReached,
                         stats |-> WalkerStats]
       ELSE UNCHANGED <<isDone, doneCalls, doneArgs>>

(* what unwind(processed) calls, in order: itself, progress()'s onProgress, *)
(* done                                                                    *)
unwindCalls(processed) ==
    LET worked == processedBytes + processed IN
    <<"unwind">>
    \o (IF /\ processed # 0 /\ ~isDone /\ ~isCanceled /\ ~limitReached
           /\ (progressed + 1) % PROGRESS_FLUSH_CHUNK_SIZE = 0
        THEN <<"onProgress">> ELSE <<>>)
    \o (IF DoneCondition(isDone, worked, totalBytes, walkerIsDone)
        THEN <<"done">> ELSE <<>>)

(* run(batch, batchBytes): picks the next worker round robin and calls its *)
(* search(); the continuation runs later, as BatchResolved                 *)
runSameWorker(batch, batchBytes) ==
    /\ workerPromises' = Append(workerPromises,
            [absolutePaths |-> batch, batchBytes |-> batchBytes,
             maxResults |-> maxResults, worker |-> nextWorker,
             state |-> "pending", canceledAtDispatch |-> isCanceled])
    /\ nextWorker' = nextWorker

runNoWrap(batch, batchBytes) ==
    /\ workerPromises' = Append(workerPromises,
            [absolutePaths |-> batch, batchBytes |-> batchBytes,
             maxResults |-> maxResults, worker |-> nextWorker % NumWorkers,
             state |-> "pending", canceledAtDispatch |-> isCanceled])
    /\ nextWorker' = nextWorker + 1

run(batch, batchBytes) ==
    /\ workerPromises' = Append(workerPromises,
            [absolutePaths |-> batch, batchBytes |-> batchBytes,
             maxResults |-> maxResults, worker |-> nextWorker,
             state |-> "pending", canceledAtDispatch |-> isCanceled])
    /\ nextWorker' = (nextWorker + 1) % NumWorkers

(* the entries of a response that are file matches with a line match *)
Hits(matches) ==
    Cardinality({i \in DOMAIN matches : ~matches[i].isNull /\ matches[i].lineMatches >= 1})

(* the matches of a response that are passed to onResult, in order *)
DeliveredNonNull(matches) ==
    SelectSeq(matches, LAMBDA m : ~m.isNull)

DeliveredButFirst(matches) ==
    IF matches = <<>> THEN <<>>
    ELSE SelectSeq(Tail(matches), LAMBDA m : ~m.isNull /\ m.lineMatches # 0)

DeliveredReversed(matches) ==
    LET hits == SelectSeq(matches, LAMBDA m : ~m.isNull /\ m.lineMatches # 0)
    IN  [i \in 1..Len(hits) |-> hits[Len(hits) + 1 - i]]

Delivered(matches) ==
    SelectSeq(matches, LAMBDA m : ~m.isNull /\ m.lineMatches # 0)

(* if (nextBatchBytes >= batchFlushBytes), tested after the file was added *)
FlushesEveryFile(batchBytes) == batchBytes > 0

FlushesStrict(batchBytes) == batchBytes > batchFlushBytes

Flushes(batchBytes) == batchBytes >= batchFlushBytes

(* ---- operations ---- *)

(* search(onResult, onProgress, done): starts the walk *)
Search ==
    /\ ~started
    /\ started' = TRUE
    /\ UNCHANGED <<tree, walkerLimitHit, engineVars, workerPromises, walkVars,
                   walkerCancelCalls, filesSeen,
                   workerVars, callbackVars>>

(* cancel() *)
CancelDropsBatch ==
    /\ isCanceled' = TRUE
    /\ walkerCancelCalls' = IF walkerCancelCalls < 2 THEN walkerCancelCalls + 1 ELSE walkerCancelCalls
    /\ nextBatch' = <<>>
    /\ nextBatchBytes' = 0
    /\ UNCHANGED <<tree, walkerLimitHit, started, isDone, totalBytes, processedBytes,
                   progressed, walkerIsDone,
                   limitReached, numResults, walkerError, nextWorker, workerPromises,
                   filesSeen, workerVars, callbackVars>>

Cancel ==
    /\ isCanceled' = TRUE
    /\ walkerCancelCalls' = IF walkerCancelCalls < 2 THEN walkerCancelCalls + 1 ELSE walkerCancelCalls
    /\ UNCHANGED <<tree, walkerLimitHit, started, isDone, totalBytes, processedBytes,
                   progressed, walkerIsDone,
                   limitReached, numResults, walkerError, nextWorker, workerPromises,
                   walkVars, filesSeen, workerVars, callbackVars>>

(* the walker's file callback *)
FileEventAliased(size) ==
    LET bytes == AccountedBytes(size) IN
    /\ started /\ ~walkerIsDone
    /\ tree.files > 0
    /\ size # 0 => tree.sized > 0
    /\ tree' = [tree EXCEPT !.files = @ - 1,
                            !.sized = IF size # 0 THEN @ - 1 ELSE @]
    /\ filesSeen' = filesSeen + 1
    /\ lastResults' = <<>>
    /\ lastCalls' = <<>>
    /\ lastResponse' = <<>>
    /\ IF limitReached \/ isCanceled
       THEN /\ unwind(bytes)
            /\ UNCHANGED <<totalBytes, nextWorker, workerPromises, walkVars>>
       ELSE /\ progress(totalBytes, processedBytes)
            /\ totalBytes' = totalBytes + bytes
            /\ IF Flushes(nextBatchBytes + bytes)
               THEN /\ run(Append(nextBatch, filesSeen + 1), nextBatchBytes + bytes)
                    /\ nextBatch' = <<>>
                    /\ nextBatchBytes' = 0
               ELSE /\ nextBatch' = Append(nextBatch, filesSeen + 1)
                    /\ nextBatchBytes' = nextBatchBytes + bytes
                    /\ nextWorker' = nextWorker
                    /\ workerPromises' =
                           IF workerPromises = <<>> THEN workerPromises
                           ELSE [workerPromises EXCEPT
                                    ![Len(workerPromises)].absolutePaths =
                                        Append(@, filesSeen + 1)]
            /\ UNCHANGED <<processedBytes, isDone, doneCalls, doneArgs>>
    /\ UNCHANGED <<started, walkerLimitHit, isCanceled, walkerIsDone, limitReached, numResults, walkerError,
                   walkerCancelCalls, onResultCalls, hitsReturned>>

FileEvent(size) ==
    LET bytes == AccountedBytes(size) IN
    /\ started /\ ~walkerIsDone
    /\ tree.files > 0
    /\ size # 0 => tree.sized > 0
    /\ tree' = [tree EXCEPT !.files = @ - 1,
                            !.sized = IF size # 0 THEN @ - 1 ELSE @]
    /\ filesSeen' = filesSeen + 1
    /\ lastResults' = <<>>
    /\ lastCalls' = <<>>
    /\ lastResponse' = <<>>
    /\ IF limitReached \/ isCanceled
       THEN /\ unwind(bytes)
            /\ UNCHANGED <<totalBytes, nextWorker, workerPromises, walkVars>>
       ELSE /\ progress(totalBytes, processedBytes)
            /\ totalBytes' = totalBytes + bytes
            /\ IF Flushes(nextBatchBytes + bytes)
               THEN /\ run(Append(nextBatch, filesSeen + 1), nextBatchBytes + bytes)
                    /\ nextBatch' = <<>>
                    /\ nextBatchBytes' = 0
               ELSE /\ nextBatch' = Append(nextBatch, filesSeen + 1)
                    /\ nextBatchBytes' = nextBatchBytes + bytes
                    /\ UNCHANGED <<nextWorker, workerPromises>>
            /\ UNCHANGED <<processedBytes, isDone, doneCalls, doneArgs>>
    /\ UNCHANGED <<started, walkerLimitHit, isCanceled, walkerIsDone, limitReached, numResults, walkerError,
                   walkerCancelCalls, onResultCalls, hitsReturned>>

(* the walker's terminal callback (error, isLimitHit) *)
WalkerDoneEager(error, isLimitHit) ==
    /\ started /\ ~walkerIsDone
    /\ isLimitHit => tree.limit
    /\ IF Len(nextBatch) # 0
       THEN run(nextBatch, nextBatchBytes)
       ELSE UNCHANGED <<nextWorker, workerPromises>>
    /\ walkerIsDone' = TRUE
    /\ walkerError' = error
    /\ walkerLimitHit' = isLimitHit
    /\ lastResults' = <<>>
    /\ lastCalls' = <<>>
    /\ lastResponse' = <<>>
    /\ IF error # NoError
       THEN /\ isDone' = TRUE
            /\ doneCalls' = doneCalls + 1
            /\ doneArgs' = [error |-> error, limitHit |-> limitReached,
                         stats |-> WalkerStats]
       ELSE UNCHANGED <<isDone, doneCalls, doneArgs>>
    /\ UNCHANGED <<tree, started, isCanceled, totalBytes, processedBytes, progressed,
                   limitReached, numResults, walkVars, walkerCancelCalls, filesSeen, hitsReturned,
                   onResultCalls, onProgressCalls, lastProgress>>

WalkerDoneUnlessCanceled(error, isLimitHit) ==
    /\ started /\ ~walkerIsDone
    /\ isLimitHit => tree.limit
    /\ IF Len(nextBatch) # 0 /\ ~isCanceled
       THEN run(nextBatch, nextBatchBytes)
       ELSE UNCHANGED <<nextWorker, workerPromises>>
    /\ walkerIsDone' = TRUE
    /\ walkerError' = error
    /\ walkerLimitHit' = isLimitHit
    /\ lastResults' = <<>>
    /\ lastCalls' = <<>>
    /\ lastResponse' = <<>>
    /\ UNCHANGED <<tree, started, isCanceled, isDone, totalBytes, processedBytes, progressed,
                   limitReached, numResults, walkVars, walkerCancelCalls, filesSeen, hitsReturned,
                   doneCalls, doneArgs, onResultCalls, onProgressCalls, lastProgress>>

WalkerDoneNoFlush(error, isLimitHit) ==
    /\ started /\ ~walkerIsDone
    /\ isLimitHit => tree.limit
    /\ walkerIsDone' = TRUE
    /\ walkerError' = error
    /\ walkerLimitHit' = isLimitHit
    /\ lastResults' = <<>>
    /\ lastCalls' = <<>>
    /\ lastResponse' = <<>>
    /\ UNCHANGED <<tree, started, isCanceled, isDone, totalBytes, processedBytes, progressed,
                   limitReached, numResults, walkVars, walkerCancelCalls, filesSeen, hitsReturned,
                   nextWorker, workerPromises,
                   doneCalls, doneArgs, onResultCalls, onProgressCalls, lastProgress>>

WalkerDoneAlwaysRuns(error, isLimitHit) ==
    /\ started /\ ~walkerIsDone
    /\ isLimitHit => tree.limit
    /\ run(nextBatch, nextBatchBytes)
    /\ walkerIsDone' = TRUE
    /\ walkerError' = error
    /\ walkerLimitHit' = isLimitHit
    /\ lastResults' = <<>>
    /\ lastCalls' = <<>>
    /\ lastResponse' = <<>>
    /\ UNCHANGED <<tree, started, isCanceled, isDone, totalBytes, processedBytes, progressed,
                   limitReached, numResults, walkVars, walkerCancelCalls, filesSeen, hitsReturned,
                   doneCalls, doneArgs, onResultCalls, onProgressCalls, lastProgress>>

WalkerDoneSyncCompletion(error, isLimitHit) ==
    /\ started /\ ~walkerIsDone
    /\ isLimitHit => tree.limit
    /\ IF Len(nextBatch) # 0
       THEN /\ workerPromises' = Append(workerPromises,
                    [absolutePaths |-> nextBatch, batchBytes |-> nextBatchBytes,
                     maxResults |-> maxResults, worker |-> nextWorker,
                     state |-> "resolved", canceledAtDispatch |-> isCanceled])
            /\ nextWorker' = (nextWorker + 1) % NumWorkers
            /\ unwind(nextBatchBytes)
       ELSE UNCHANGED <<nextWorker, workerPromises, processedBytes, progressed, isDone,
                        doneCalls, doneArgs, onProgressCalls, lastProgress>>
    /\ walkerIsDone' = TRUE
    /\ walkerError' = error
    /\ walkerLimitHit' = isLimitHit
    /\ lastResults' = <<>>
    /\ lastCalls' = <<>>
    /\ lastResponse' = <<>>
    /\ UNCHANGED <<tree, started, isCanceled, totalBytes, limitReached, numResults, walkVars,
                   walkerCancelCalls, filesSeen, hitsReturned, onResultCalls>>

WalkerDoneSetsLimit(error, isLimitHit) ==
    /\ started /\ ~walkerIsDone
    /\ isLimitHit => tree.limit
    /\ IF Len(nextBatch) # 0
       THEN run(nextBatch, nextBatchBytes)
       ELSE UNCHANGED <<nextWorker, workerPromises>>
    /\ walkerIsDone' = TRUE
    /\ walkerError' = error
    /\ walkerLimitHit' = isLimitHit
    /\ limitReached' = isLimitHit
    /\ lastResults' = <<>>
    /\ lastCalls' = <<>>
    /\ lastResponse' = <<>>
    /\ UNCHANGED <<tree, started, isCanceled, isDone, totalBytes, processedBytes, progressed,
                   numResults, walkVars, walkerCancelCalls, filesSeen, hitsReturned,
                   doneCalls, doneArgs, onResultCalls, onProgressCalls, lastProgress>>

WalkerDone(error, isLimitHit) ==
    /\ started /\ ~walkerIsDone
    /\ isLimitHit => tree.limit
    /\ IF Len(nextBatch) # 0
       THEN run(nextBatch, nextBatchBytes)
       ELSE UNCHANGED <<nextWorker, workerPromises>>
    /\ walkerIsDone' = TRUE
    /\ walkerError' = error
    /\ walkerLimitHit' = isLimitHit
    /\ lastResults' = <<>>
    /\ lastCalls' = <<>>
    /\ lastResponse' = <<>>
    /\ UNCHANGED <<tree, started, isCanceled, isDone, totalBytes, processedBytes, progressed,
                   limitReached, numResults, walkVars, walkerCancelCalls, filesSeen, hitsReturned,
                   doneCalls, doneArgs, onResultCalls, onProgressCalls, lastProgress>>

(* the continuation of worker.search(...).then(matches => ...) of batch k *)
BatchResolved(k, matches) ==
    /\ k \in DOMAIN workerPromises
    /\ workerPromises[k].state = "pending"
    \* the worker answers with at most one entry per path it was given
    /\ Len(matches) <= Len(workerPromises[k].absolutePaths)
    /\ Len(matches) <= tree.entries
    /\ workerPromises' = [workerPromises EXCEPT ![k].state = "resolved"]
    /\ numResults' = numResults + Len(matches)
    /\ onResultCalls' = onResultCalls + Len(Delivered(matches))
    /\ lastResults' = Delivered(matches)
    /\ hitsReturned' = hitsReturned + Hits(matches)
    /\ lastResponse' = matches
    /\ lastCalls' = [i \in 1..Len(Delivered(matches)) |-> "onResult"]
                       \o unwindCalls(workerPromises[k].batchBytes)
    /\ unwind(workerPromises[k].batchBytes)
    /\ UNCHANGED <<tree, walkerLimitHit, started, isCanceled, totalBytes, walkerIsDone,
                   limitReached, walkerError,
                   nextWorker, walkVars, walkerCancelCalls, filesSeen>>

(* worker.search() of batch k fails: the promise has no error handler, the *)
(* continuation never runs                                                 *)
BatchRejected(k) ==
    /\ k \in DOMAIN workerPromises
    /\ workerPromises[k].state = "pending"
    /\ workerPromises' = [workerPromises EXCEPT ![k].state = "rejected"]
    /\ UNCHANGED <<tree, walkerLimitHit, started, engineVars, walkVars, walkerCancelCalls,
                   filesSeen,
                   workerVars, callbackVars>>

Next ==
    \/ Search
    \/ Cancel
    \/ \E size \in FileSizes : FileEvent(size)
    \/ \E error \in WalkerErrors, isLimitHit \in BOOLEAN : WalkerDone(error, isLimitHit)
    \/ \E k \in 1..MaxFiles, matches \in WorkerResponses : BatchResolved(k, matches)
    \/ \E k \in 1..MaxFiles : BatchRejected(k)

Spec == Init /\ [][Next]_vars

SpecLong == InitLong /\ [][Next]_vars

(* ---- derived notions ---- *)
Pending == {k \in DOMAIN workerPromises : workerPromises[k].state = "pending"}
Rejected == {k \in DOMAIN workerPromises : workerPromises[k].state = "rejected"}
(* nothing is left to happen: the walk is over and every promise has settled *)
Quiescent == walkerIsDone /\ Pending = {}

TypeOK ==
    /\ started \in BOOLEAN /\ isCanceled \in BOOLEAN /\ isDone \in BOOLEAN
    /\ walkerLimitHit \in BOOLEAN
    /\ walkerIsDone \in BOOLEAN /\ limitReached \in BOOLEAN
    /\ totalBytes \in Nat /\ processedBytes \in Nat /\ progressed \in Nat
    /\ numResults \in Nat /\ nextWorker \in 0..(NumWorkers - 1)
    /\ walkerError \in WalkerErrors
    /\ filesSeen + tree.files \in {MaxFiles, LongFiles}
    /\ doneCalls \in Nat /\ onResultCalls \in Nat /\ onProgressCalls \in Nat
    /\ lastCalls \in Seq({"onResult", "unwind", "onProgress", "done"})

(* ======================= done() fires at most once ===================== *)

(* C1: in every execution of one search() call, done is invoked at most    *)
(* once, and it has been invoked exactly when isDone is set: once isDone   *)
(* is set no later batch completion or file event invokes done again.      *)
C1_DoneAtMostOnce ==
    /\ doneCalls <= 1
    /\ isDone <=> (doneCalls = 1)

(* done has fired and a batch has completed after it: its bytes went on    *)
(* top of a processedBytes that had already reached totalBytes             *)
C1_Witness ==
    /\ isDone /\ doneCalls = 1
    /\ processedBytes > totalBytes
    /\ \E k \in DOMAIN workerPromises : workerPromises[k].state = "resolved"

(* C2: in a run without cancel() in which the walker has invoked its       *)
(* terminal callback and every dispatched batch has resolved successfully, *)
(* done has been invoked (nothing is left that could still invoke it).     *)
C2_DoneWhenAllSettled ==
    (Quiescent /\ ~isCanceled /\ Rejected = {}) => isDone

(* C3: the step that invokes done ends in a state with                     *)
(* processedBytes = totalBytes and walkerIsDone.                           *)
C3_DoneOnlyWhenComplete ==
    [][doneCalls' # doneCalls => (processedBytes' = totalBytes' /\ walkerIsDone')]_vars

(* done has just been invoked by the completion of the last batch *)
C3_Witness ==
    /\ doneCalls = 1 /\ workerPromises # <<>>
    /\ processedBytes = totalBytes /\ totalBytes > 0

(* C4: processedBytes never exceeds totalBytes, whatever the interleaving  *)
(* of file events, batch completions, the terminal callback and cancel().  *)
C4_ProcessedAtMostTotal ==
    processedBytes <= totalBytes

(* C5: once cancel() has returned, no step dispatches a batch to a worker. *)
C5_NoDispatchAfterCancel ==
    [][isCanceled => Len(workerPromises') = Len(workerPromises)]_vars

(* C6: in a canceled run in which the walker has invoked its terminal      *)
(* callback and every dispatched batch has resolved, done has been invoked.*)
C6_DoneAfterCancel ==
    (Quiescent /\ isCanceled /\ Rejected = {}) => isDone

(* C7: a batch dispatched before cancel() that resolves after cancel()     *)
(* passes none of its matches to onResult (its bytes are still added to    *)
(* processedBytes).                                                        *)
C7_CanceledResultsDiscarded ==
    [][\A k \in DOMAIN workerPromises :
          ( /\ isCanceled
            /\ ~workerPromises[k].canceledAtDispatch
            /\ workerPromises[k].state = "pending"
            /\ workerPromises'[k].state = "resolved" )
          => ( /\ onResultCalls' = onResultCalls
               /\ processedBytes' = processedBytes + workerPromises[k].batchBytes )]_vars

(* C8: once the walk is over and every promise has settled, a rejected     *)
(* worker.search call has been reported: done was invoked with a non-null  *)
(* error.                                                                  *)
C8_RejectionReported ==
    (Quiescent /\ Rejected # {}) => (doneCalls >= 1 /\ doneArgs.error # NoError)

(* C9: done is never invoked while a dispatched batch is unresolved: the   *)
(* step that invokes done leaves no pending (or failed) worker call.       *)
C9_DoneOnlyAfterAllBatches ==
    [][doneCalls' # doneCalls =>
          \A k \in DOMAIN workerPromises' : workerPromises'[k].state = "resolved"]_vars

(* C10: at the end of every handler, walkerIsDone and                      *)
(* processedBytes = totalBytes imply isDone.                               *)
C10_CompletionChecked ==
    (walkerIsDone /\ processedBytes = totalBytes) => isDone

(* ============================ results ================================== *)

(* C11: every FileMatch passed to onResult has at least one line match;    *)
(* null entries and matches without line matches are never passed.         *)
C11_ResultsHaveLineMatches ==
    \A i \in DOMAIN lastResults :
        ~lastResults[i].isNull /\ lastResults[i].lineMatches >= 1

(* a completion passed a match to onResult while an entry of some response *)
(* was held back                                                           *)
C11_Witness ==
    /\ lastResults # <<>>
    /\ numResults > onResultCalls

(* C12: in a run without cancel(), once all dispatched batches have        *)
(* resolved, the number of onResult calls equals the number of entries     *)
(* with at least one line match over all worker responses.                 *)
C12_ResultCount ==
    (~isCanceled /\ Pending = {} /\ Rejected = {}) => onResultCalls = hitsReturned

(* two batches have resolved, results were delivered and entries held back *)
C12_Witness ==
    /\ ~isCanceled /\ Pending = {} /\ Rejected = {}
    /\ Len(workerPromises) >= 2
    /\ onResultCalls >= 2
    /\ numResults > onResultCalls

(* ========================= walker errors =============================== *)

(* C13: a walker error is not reported before completion. Before the       *)
(* terminal callback no error is stored and done has not been invoked; the *)
(* terminal callback invokes done only if the completion condition holds;  *)
(* and every call of done passes exactly the stored walker error.          *)
C13_WalkerErrorDeferred ==
    /\ [](~walkerIsDone => (walkerError = NoError /\ doneCalls = 0))
    /\ [][ /\ (walkerIsDone' # walkerIsDone /\ doneCalls' # doneCalls)
                => processedBytes' = totalBytes'
           /\ (doneCalls' # doneCalls)
                => (doneArgs'.error = walkerError' /\ walkerError' = walkerError) ]_vars

(* the walker reported an error while a batch was outstanding, and done    *)
(* was invoked with that error when the batch resolved                     *)
C13_Witness ==
    /\ doneCalls = 1 /\ doneArgs.error = "Error" /\ walkerError = "Error"
    /\ workerPromises # <<>> /\ processedBytes = totalBytes

(* ============================ dispatch ================================= *)

(* C14: with a pool of N workers the k-th dispatched batch (k = 0, 1, ...) *)
(* is sent to worker k mod N, whatever that worker still has outstanding.  *)
C14_RoundRobin ==
    \A k \in DOMAIN workerPromises : workerPromises[k].worker = (k - 1) % NumWorkers

(* a batch was sent to a worker that still had an earlier batch pending *)
C14_Witness ==
    \E j, k \in DOMAIN workerPromises :
        /\ j < k
        /\ workerPromises[j].worker = workerPromises[k].worker
        /\ workerPromises[j].state = "pending"
        /\ workerPromises[k].state = "pending"

(* ============================ progress ================================= *)

(* C15: onProgress is never called in a state where isCanceled,            *)
(* limitReached or isDone is true, be it from a file event or from a batch *)
(* completion.                                                             *)
C15_NoProgressAfterStop ==
    [][onProgressCalls' # onProgressCalls
          => (~isCanceled /\ ~limitReached /\ ~isDone)]_vars

(* progress was emitted, then the search was canceled and further file     *)
(* events or completions were counted                                      *)
C15_Witness ==
    /\ onProgressCalls >= 1 /\ isCanceled
    /\ processedBytes > 0
    /\ filesSeen >= PROGRESS_FLUSH_CHUNK_SIZE + 1

(* C16: at every point of a run the number of onProgress calls is at most  *)
(* floor(F / 50), F being the number of file events delivered so far.      *)
C16_ProgressPerFiftyFiles ==
    onProgressCalls * PROGRESS_FLUSH_CHUNK_SIZE <= filesSeen

(* C17: of two consecutive onProgress events the later one has a worked    *)
(* value and a total value at least as large as the earlier one's.         *)
C17_ProgressMonotone ==
    [][(onProgressCalls' # onProgressCalls /\ onProgressCalls >= 1)
          => ( /\ lastProgress'.worked >= lastProgress.worked
               /\ lastProgress'.total >= lastProgress.total )]_vars

(* a second progress event was emitted, by a batch completion *)
C17_Witness ==
    /\ onProgressCalls = 2
    /\ lastProgress.worked > 0

(* ============================ batching ================================= *)

RECURSIVE SumBatchBytes(_)
SumBatchBytes(promises) ==
    IF promises = <<>> THEN 0
    ELSE promises[1].batchBytes + SumBatchBytes(Tail(promises))

(* C18: while the accepted files total less than the flush threshold and   *)
(* there is no cancel, nothing is dispatched before the terminal callback; *)
(* after it exactly one batch (all the files) has been dispatched, and     *)
(* done has fired, once and with limitHit = false, exactly if that batch   *)
(* has resolved.                                                           *)
C18_OneBatchBelowThreshold ==
    (~isCanceled /\ totalBytes > 0 /\ totalBytes < batchFlushBytes) =>
        IF ~walkerIsDone
        THEN workerPromises = <<>> /\ doneCalls = 0
        ELSE /\ Len(workerPromises) = 1
             /\ workerPromises[1].batchBytes = totalBytes
             /\ Len(workerPromises[1].absolutePaths) = filesSeen
             /\ doneCalls <= 1
             /\ (doneCalls = 1) <=> (workerPromises[1].state = "resolved")
             /\ doneCalls = 1 => doneArgs.limitHit = FALSE

(* several files below the threshold went out as one batch at termination, *)
(* it resolved and done fired                                              *)
C18_Witness ==
    /\ ~isCanceled /\ walkerIsDone
    /\ totalBytes > 0 /\ totalBytes < batchFlushBytes
    /\ filesSeen >= 2
    /\ doneCalls = 1

(* C19 as stated: a walk whose accepted files total 12MB ends with exactly *)
(* 3 batches dispatched, two sealed by the threshold and one remainder.    *)
C19_ExactlyThreeBatches ==
    (walkerIsDone /\ ~isCanceled /\ totalBytes = 12 * 1000000) =>
        /\ Len(workerPromises) = 3
        /\ workerPromises[1].batchBytes >= batchFlushBytes
        /\ workerPromises[2].batchBytes >= batchFlushBytes
        /\ workerPromises[3].batchBytes < batchFlushBytes

(* C19 amended: a walk whose accepted files total 12MB ends with between 1 *)
(* and 3 batches whose sizes sum to 12MB; every batch but the last holds   *)
(* at least the threshold, and a third batch is a remainder below it.      *)
C19_AtMostThreeBatches ==
    (walkerIsDone /\ ~isCanceled /\ totalBytes = 12 * 1000000) =>
        /\ Len(workerPromises) \in 1..3
        /\ SumBatchBytes(workerPromises) = totalBytes
        /\ \A k \in 1..(Len(workerPromises) - 1) :
               workerPromises[k].batchBytes >= batchFlushBytes
        /\ Len(workerPromises) = 3 => workerPromises[3].batchBytes < batchFlushBytes

(* 12MB went out as two sealed batches and a remainder *)
C19_Witness ==
    /\ walkerIsDone /\ ~isCanceled /\ totalBytes = 12 * 1000000
    /\ Len(workerPromises) = 3

(* C20: an accepted file event seals and dispatches the accumulator        *)
(* exactly when its size with that file is at least the flush threshold,   *)
(* and then leaves it empty with byte count 0; otherwise the file is only  *)
(* added. Before and after the event the accumulator holds less than the   *)
(* threshold, so a sealed batch without its last file is below it.         *)
C20_ThresholdFlush ==
    [][(filesSeen' # filesSeen /\ ~isCanceled /\ ~limitReached) =>
          LET bytes == totalBytes' - totalBytes
              accumulated == nextBatchBytes + bytes
              n == Len(workerPromises')
          IN /\ bytes >= 1
             /\ nextBatchBytes < batchFlushBytes
             /\ nextBatchBytes' < batchFlushBytes
             /\ IF accumulated >= batchFlushBytes
                THEN /\ n = Len(workerPromises) + 1
                     /\ workerPromises'[n].batchBytes = accumulated
                     /\ workerPromises'[n].absolutePaths = Append(nextBatch, filesSeen')
                     /\ nextBatch' = <<>>
                     /\ nextBatchBytes' = 0
                ELSE /\ workerPromises' = workerPromises
                     /\ nextBatch' = Append(nextBatch, filesSeen')
                     /\ nextBatchBytes' = accumulated]_vars

(* a file event sealed a batch of several files that exceeds the           *)
(* threshold, and one sealed a batch of exactly the threshold              *)
C20_Witness ==
    /\ ~walkerIsDone /\ nextBatch = <<>> /\ nextBatchBytes = 0
    /\ Len(workerPromises) = 2
    /\ \E k \in DOMAIN workerPromises :
           /\ workerPromises[k].batchBytes > batchFlushBytes
           /\ Len(workerPromises[k].absolutePaths) >= 2
    /\ \E k \in DOMAIN workerPromises : workerPromises[k].batchBytes = batchFlushBytes

(* ===================== termination, cancel, phases ===================== *)

(* C21: the walker's terminal callback dispatches a non-empty accumulator  *)
(* as one final batch, whatever its size and whatever the flags, and       *)
(* dispatches nothing when the accumulator is empty.                       *)
C21_RemainderFlushed ==
    [][walkerIsDone' # walkerIsDone =>
          LET n == Len(workerPromises') IN
          IF nextBatch # <<>>
          THEN /\ n = Len(workerPromises) + 1
               /\ workerPromises'[n].absolutePaths = nextBatch
               /\ workerPromises'[n].batchBytes = nextBatchBytes
               /\ \A k \in DOMAIN workerPromises : workerPromises'[k] = workerPromises[k]
          ELSE workerPromises' = workerPromises]_vars

(* a remainder below the threshold was dispatched at termination although  *)
(* the search had been canceled                                            *)
C21_Witness ==
    /\ walkerIsDone /\ isCanceled
    /\ \E k \in DOMAIN workerPromises :
           /\ workerPromises[k].canceledAtDispatch
           /\ workerPromises[k].batchBytes < batchFlushBytes

(* C22: a file event received while isCanceled or limitReached adds the    *)
(* file's accounted size to processedBytes, leaves totalBytes, the         *)
(* accumulator, nextWorker and the dispatched batches unchanged, and does  *)
(* not break the byte accounting: processedBytes stays within totalBytes.  *)
C22_IgnoredFileEvent ==
    [][(filesSeen' # filesSeen /\ (isCanceled \/ limitReached)) =>
          /\ processedBytes' - processedBytes >= 1
          /\ UNCHANGED <<totalBytes, nextBatch, nextBatchBytes, nextWorker, workerPromises>>
          /\ processedBytes <= totalBytes => processedBytes' <= totalBytes']_vars

(* the paths accepted so far: those of the dispatched batches and of the   *)
(* accumulator                                                             *)
AcceptedPaths ==
    UNION {{workerPromises[k].absolutePaths[i] : i \in DOMAIN workerPromises[k].absolutePaths} :
              k \in DOMAIN workerPromises}
    \cup {nextBatch[i] : i \in DOMAIN nextBatch}

(* C23: an accepted file adds max(size, 1) bytes - 1 for a missing or zero *)
(* size - to totalBytes and the same amount to the accumulator's byte      *)
(* count (or to the batch it seals); so totalBytes is at least the number  *)
(* of accepted files.                                                      *)
C23_AccountedSize ==
    /\ [](totalBytes >= Cardinality(AcceptedPaths))
    /\ [][(filesSeen' # filesSeen /\ ~isCanceled /\ ~limitReached) =>
            LET bytes == totalBytes' - totalBytes IN
            /\ IF tree'.sized = tree.sized THEN bytes = 1 ELSE bytes \in FileSizes \ {0}
            /\ IF Len(workerPromises') = Len(workerPromises)
               THEN nextBatchBytes' = nextBatchBytes + bytes
               ELSE workerPromises'[Len(workerPromises')].batchBytes = nextBatchBytes + bytes]_vars

(* a file of unknown size and a file with a size were accepted *)
C23_Witness ==
    /\ Cardinality(AcceptedPaths) = 2
    /\ totalBytes = 2000001
    /\ nextBatchBytes = totalBytes

(* C24: walkerIsDone, isDone and isCanceled are never reset, isDone        *)
(* implies walkerIsDone, and once done has fired no step fires it again.   *)
C24_PhasesForward ==
    /\ [](isDone => walkerIsDone)
    /\ [][ /\ walkerIsDone => walkerIsDone'
           /\ isDone => isDone'
           /\ isCanceled => isCanceled'
           /\ isDone => doneCalls' = doneCalls ]_vars

(* Draining was left for Done, and a completion was handled after that *)
C24_Witness ==
    /\ isDone /\ walkerIsDone /\ isCanceled
    /\ processedBytes > totalBytes
    /\ Pending = {}

(* C25: cancel() sets isCanceled, calls walker.cancel() and changes        *)
(* nothing else; it invokes none of done, onResult, onProgress, and a      *)
(* second call leaves the engine as the first one left it.                 *)
C25_CancelFrame ==
    [][(walkerCancelCalls' # walkerCancelCalls \/ isCanceled' # isCanceled) =>
          /\ isCanceled'
          /\ walkerCancelCalls' = walkerCancelCalls + 1
          /\ isCanceled => UNCHANGED engineVars
          /\ UNCHANGED <<tree, walkerLimitHit, started, isDone, totalBytes, processedBytes,
                         progressed, walkerIsDone, limitReached, numResults, walkerError, nextWorker,
                         workerPromises, walkVars, filesSeen, workerVars, callbackVars>>]_vars

(* cancel() was called twice while files were accumulated and a batch was  *)
(* outstanding                                                             *)
C25_Witness ==
    /\ walkerCancelCalls = 2 /\ isCanceled
    /\ nextBatch # <<>> /\ ~walkerIsDone
    /\ Pending # {}

(* ===================== progress, batches, completions ===================== *)

(* C26: in a run without cancel, onProgress is invoked exactly in the file *)
(* events whose ordinal is a multiple of PROGRESS_FLUSH_CHUNK_SIZE, once   *)
(* each, and in no other step.                                             *)
C26_ProgressOnlyAtFiftiethFile ==
    [][~isCanceled' =>
          /\ onProgressCalls' # onProgressCalls <=>
                (filesSeen' # filesSeen /\ filesSeen' % PROGRESS_FLUSH_CHUNK_SIZE = 0)
          /\ onProgressCalls' - onProgressCalls \in {0, 1}]_vars

(* C27: a dispatched batch never changes: later steps leave its paths, its *)
(* byte count and its worker as they were, and a file event that seals a   *)
(* batch leaves an empty accumulator behind.                               *)
C27_BatchImmutable ==
    [][ /\ \A k \in DOMAIN workerPromises :
              /\ k \in DOMAIN workerPromises'
              /\ workerPromises'[k].absolutePaths = workerPromises[k].absolutePaths
              /\ workerPromises'[k].batchBytes = workerPromises[k].batchBytes
              /\ workerPromises'[k].worker = workerPromises[k].worker
        /\ (filesSeen' # filesSeen /\ Len(workerPromises') # Len(workerPromises)) =>
              (nextBatch' = <<>> /\ nextBatchBytes' = 0) ]_vars

(* a file was accepted into the accumulator after a batch had been sealed *)
C27_Witness ==
    /\ Len(workerPromises) >= 1
    /\ nextBatch # <<>>
    /\ ~walkerIsDone

(* C28: whatever the order in which the batches complete, once all of at   *)
(* least two batches have resolved the outcome is the same: every hit was  *)
(* delivered, totalBytes is the sum of the batches, processedBytes equals  *)
(* it in a run without cancel, and done has fired exactly once.            *)
C28_OrderIndependentOutcome ==
    (Quiescent /\ Rejected = {} /\ Len(workerPromises) >= 2) =>
        /\ onResultCalls = hitsReturned
        /\ totalBytes = SumBatchBytes(workerPromises)
        /\ ~isCanceled => processedBytes = totalBytes
        /\ doneCalls = 1

(* the entries of a response with at least one line match, first to last *)
RECURSIVE HitsInOrder(_)
HitsInOrder(matches) ==
    IF matches = <<>> THEN <<>>
    ELSE LET m == Head(matches) IN
         (IF ~m.isNull /\ m.lineMatches >= 1 THEN <<m>> ELSE <<>>)
         \o HitsInOrder(Tail(matches))

(* C29: the completion step of a batch passes the response's entries that  *)
(* have a line match to onResult in response order, all of them before     *)
(* unwind adds the batch's bytes and runs the completion check.            *)
C29_ResultsInResponseOrder ==
    [][\A k \in DOMAIN workerPromises :
          (workerPromises[k].state = "pending" /\ workerPromises'[k].state = "resolved") =>
             LET n == Len(lastResults') IN
             /\ lastResults' = HitsInOrder(lastResponse')
             /\ onResultCalls' = onResultCalls + n
             /\ Len(lastCalls') > n
             /\ \A i \in 1..n : lastCalls'[i] = "onResult"
             /\ lastCalls'[n + 1] = "unwind"
             /\ \A i \in (n + 2)..Len(lastCalls') : lastCalls'[i] \in {"onProgress", "done"}
             /\ processedBytes' = processedBytes + workerPromises[k].batchBytes
             /\ doneCalls' # doneCalls =>
                   /\ processedBytes' = totalBytes
                   /\ lastCalls'[Len(lastCalls')] = "done"]_vars

(* the completion that fired done delivered two different hits in the     *)
(* order of the response, the match with two line matches first            *)
C29_Witness ==
    /\ lastResults = <<FileMatch(2), FileMatch(1)>>
    /\ lastCalls = <<"onResult", "onResult", "unwind", "done">>
    /\ Len(lastResponse) = 2

(* C30: in a canceled run whose walker reported no error, done - if it     *)
(* fires - gets no error and a completion object of limitHit and stats     *)
(* only.                                                                   *)
C30_CancelNotAnError ==
    (doneCalls >= 1 /\ isCanceled /\ walkerError = NoError) =>
        /\ doneArgs.error = NoError
        /\ DOMAIN doneArgs = {"error", "limitHit", "stats"}
        /\ doneArgs.limitHit = limitReached
        /\ doneArgs.stats = WalkerStats

(* done fired for a batch that was dispatched after cancel() *)
C30_Witness ==
    /\ doneCalls = 1 /\ isCanceled /\ walkerError = NoError
    /\ \E k \in DOMAIN workerPromises :
           workerPromises[k].canceledAtDispatch /\ workerPromises[k].state = "resolved"

(* ===================== conservation and ordering ===================== *)

(* C31: once done has been invoked no step invokes onResult, canceled runs *)
(* included.                                                               *)
C31_NoResultAfterDone ==
    [][isDone => onResultCalls' = onResultCalls]_vars

(* C32: in every state totalBytes is the sum of the dispatched batches'    *)
(* bytes plus nextBatchBytes, and after the walker's terminal callback it  *)
(* is the sum of the dispatched batches' bytes.                            *)
C32_TotalIsBatchesPlusAccumulator ==
    /\ totalBytes = SumBatchBytes(workerPromises) + nextBatchBytes
    /\ walkerIsDone => totalBytes = SumBatchBytes(workerPromises)

(* C32, as the code has it: until the terminal callback has run totalBytes *)
(* is the dispatched batches' bytes plus nextBatchBytes; the terminal      *)
(* callback dispatches the accumulator without resetting it, and from then *)
(* on totalBytes is the dispatched batches' bytes alone.                   *)
C32_TotalIsBatchesPlusOpenAccumulator ==
    totalBytes = SumBatchBytes(workerPromises) + (IF walkerIsDone THEN 0 ELSE nextBatchBytes)

(* the terminal callback flushed a remainder after a batch had been sealed *)
(* and the accumulator's count is still the remainder's                    *)
C32_Witness ==
    /\ walkerIsDone
    /\ Len(workerPromises) = 2
    /\ nextBatchBytes = workerPromises[2].batchBytes
    /\ nextBatchBytes > 0

(* the bytes of the batches that have resolved *)
RECURSIVE SumResolvedBytes(_)
SumResolvedBytes(promises) ==
    IF promises = <<>> THEN 0
    ELSE (IF promises[1].state = "resolved" THEN promises[1].batchBytes ELSE 0)
         + SumResolvedBytes(Tail(promises))

(* C33: processedBytes is the bytes of the resolved batches plus the       *)
(* accounted sizes of the file events received while canceled or limit     *)
(* reached: it equals the former in a run without cancel, and every step   *)
(* adds to it exactly the bytes of the batch it resolves or the accounted  *)
(* size of the file event it ignores; a resolved batch never resolves      *)
(* again.                                                                  *)
C33_ProcessedIsResolvedPlusIgnored ==
    /\ [](/\ processedBytes >= SumResolvedBytes(workerPromises)
          /\ ~isCanceled => processedBytes = SumResolvedBytes(workerPromises))
    /\ [][LET resolved == SumResolvedBytes(workerPromises') - SumResolvedBytes(workerPromises)
              ignored == IF filesSeen' # filesSeen /\ (isCanceled \/ limitReached)
                         THEN IF tree'.sized = tree.sized THEN {1} ELSE FileSizes \ {0}
                         ELSE {0}
          IN  /\ processedBytes' - processedBytes - resolved \in ignored
              /\ \A k \in DOMAIN workerPromises :
                    workerPromises[k].state = "resolved" =>
                        workerPromises'[k].state = "resolved"]_vars

(* a batch resolved and two file events were ignored after cancel(), one   *)
(* of unknown size                                                         *)
C33_Witness ==
    /\ isCanceled
    /\ SumResolvedBytes(workerPromises) = 5000000
    /\ processedBytes = 5000000 + 2000000 + 1

(* the paths of the dispatched batches, in dispatch order *)
RECURSIVE ConcatPaths(_)
ConcatPaths(promises) ==
    IF promises = <<>> THEN <<>>
    ELSE promises[1].absolutePaths \o ConcatPaths(Tail(promises))

(* the paths accepted so far, in batch order: after the terminal callback  *)
(* the accumulator's paths are those of the last batch                     *)
BatchedPaths ==
    ConcatPaths(workerPromises) \o (IF walkerIsDone THEN <<>> ELSE nextBatch)

(* C34: the files the walker delivered while neither canceled nor limit    *)
(* reached are, in delivery order and once each, the paths of the batches  *)
(* and the open accumulator; after the terminal callback they are the      *)
(* paths of the batches. No step removes a path and no other path appears. *)
C34_NoFileLostOrDuplicated ==
    /\ [](/\ BatchedPaths = [i \in 1..Len(BatchedPaths) |-> i]
          /\ Len(BatchedPaths) <= filesSeen
          /\ ~isCanceled => Len(BatchedPaths) = filesSeen)
    /\ [][Len(BatchedPaths') =
             IF filesSeen' # filesSeen /\ ~isCanceled /\ ~limitReached
             THEN Len(BatchedPaths) + 1
             ELSE Len(BatchedPaths)]_vars

(* three files in two batches, the second one flushed by the terminal      *)
(* callback, and a third file the canceled engine ignored                  *)
C34_Witness ==
    /\ walkerIsDone /\ isCanceled
    /\ Len(workerPromises) = 2
    /\ ConcatPaths(workerPromises) = <<1, 2>>
    /\ filesSeen = 3

(* C35: limitReached is false in every state and every done call reports   *)
(* limitHit = false, whatever isLimitHit the walker passed.                *)
C35_LimitReachedNeverSet ==
    /\ ~limitReached
    /\ doneCalls >= 1 => doneArgs.limitHit = FALSE

(* the walker reported that its limit was hit, and done fired *)
C35_Witness ==
    /\ walkerLimitHit
    /\ doneCalls = 1
    /\ doneArgs.limitHit = FALSE

(* C36: every onProgress event has worked <= total.                        *)
C36_WorkedAtMostTotal ==
    lastProgress # NoProgress => lastProgress.worked <= lastProgress.total

(* a progress event emitted with everything found so far processed *)
C36_Witness ==
    /\ onProgressCalls >= 1
    /\ lastProgress.total > 0
    /\ lastProgress.worked = lastProgress.total

C38_BatchesNonEmpty ==
    /\ [](\A k \in DOMAIN workerPromises :
             /\ Len(workerPromises[k].absolutePaths) >= 1
             /\ workerPromises[k].batchBytes >= Len(workerPromises[k].absolutePaths))
    /\ [][\A k \in DOMAIN workerPromises :
             (workerPromises[k].state = "pending" /\ workerPromises'[k].state = "resolved")
                => processedBytes' > processedBytes]_vars

(* a batch of two files of unknown size, two bytes, has resolved *)
C38_Witness ==
    \E k \in DOMAIN workerPromises :
        /\ Len(workerPromises[k].absolutePaths) = 2
        /\ workerPromises[k].batchBytes = 2
        /\ workerPromises[k].state = "resolved"
        /\ processedBytes = 2

(* C39: nextWorker is an index of the pool and equals the number of        *)
(* batches dispatched so far modulo the pool's size (so only a dispatch    *)
(* changes it).                                                            *)
C39_NextWorkerIsDispatchedModN ==
    /\ nextWorker \in 0..(NumWorkers - 1)
    /\ nextWorker = Len(workerPromises) % NumWorkers

(* one batch more than there are workers: the index has wrapped *)
C39_Witness ==
    /\ Len(workerPromises) = NumWorkers + 1
    /\ nextWorker = 1

(* C40: the step of the terminal callback leaves the batch it dispatches   *)
(* pending and processes nothing; the completion of a batch dispatched by  *)
(* the terminal callback (the only batches below the flush threshold) is   *)
(* handled in a later step that starts with walkerIsDone true, and fires   *)
(* done if it brings processedBytes to totalBytes and done has not fired.  *)
C40_FinalBatchCompletesAfterWalk ==
    [][ /\ walkerIsDone' # walkerIsDone =>
              /\ \A k \in DOMAIN workerPromises' \ DOMAIN workerPromises :
                    workerPromises'[k].state = "pending"
              /\ processedBytes' = processedBytes
        /\ \A k \in DOMAIN workerPromises :
              ( /\ workerPromises[k].state = "pending"
                /\ workerPromises'[k].state = "resolved"
                /\ workerPromises[k].batchBytes < batchFlushBytes ) =>
                  /\ walkerIsDone
                  /\ (~isDone /\ processedBytes' = totalBytes) => doneCalls' = doneCalls + 1
      ]_vars

(* the only batch is the remainder the terminal callback dispatched, and   *)
(* its completion fired done                                               *)
C40_Witness ==
    /\ Len(workerPromises) = 1
    /\ workerPromises[1].batchBytes < batchFlushBytes
    /\ workerPromises[1].state = "resolved"
    /\ lastCalls # <<>>
    /\ lastCalls[Len(lastCalls)] = "done"

====
